---- MODULE Spec2Model ----
(***************************************************************************)
(* Stream-status polling engine of discord_bot/cogs/stream/setup.py:       *)
(* the StreamManager cog (Registry streams_by_id, the poll_streams loop    *)
(* with its on_stream_online / on_stream_offline helpers, the add / remove *)
(* commands and the on_guild_channel_delete event), together with the      *)
(* collaborators it calls: the database driver (Store), the Twitch client  *)
(* (status provider, name resolver) and the Discord client (Dispatcher).   *)
(* Every coroutine is followed await by await: a step is what a coroutine  *)
(* does from the return of one await to the call of the next.              *)
(***************************************************************************)
EXTENDS Integers, Sequences, FiniteSets, TLC

\* ------------------------------------------------------------------ bounds
StreamIds == {1, 2}                \* provider-assigned stream ids
ChannelIds == {1, 2}               \* discord channel ids
Names == {"a", "b", "c"}           \* stream names known to the provider
MaxTime == 50                      \* the clock stops the loop's sleep here
MaxLag == 1                        \* a tick takes 0..MaxLag time units
MaxMsgs == 3                       \* notifications ever posted
MaxRenames == 1                    \* renames of a stream at the provider
MaxTasks == 2                      \* command handlers in flight at once
MaxSpawned == 2                    \* commands and events ever received
MaxReady == 2                      \* on_ready events ever received
MaxCommands == 1                   \* commands and events received while polling

\* ------------------------------------------------------- program constants
SLEEP == 10                        \* asyncio.sleep(10)
MIN_OFFLINE_DURATION == 30         \* CONF.MIN_OFFLINE_DURATION
NoDate == -1                       \* last_offline_date = None

\* ceil(MIN_OFFLINE_DURATION / tick interval)
Needed == (MIN_OFFLINE_DURATION + SLEEP - 1) \div SLEEP

VARIABLES
    now,                   \* wall clock (datetime.now())
    provName,              \* provider: stream id -> current name
    renames,               \* number of provider renames so far
    streamRows,            \* Store: Stream rows, id -> name
    channelRows,           \* Store: Channel rows (set of channel ids)
    subs,                  \* Store: ChannelStream rows in insertion order
    streams_by_id,         \* Registry: id -> Stream object
    msgs,                  \* Dispatcher: messages posted so far
    polling,               \* the poll_streams tasks: position and locals of each
    detached,              \* Stream objects only suspended iterations still hold
    last,                  \* the last command or event handled
    absences,              \* id -> absent answers in a row, up to this tick
    tasks,                 \* command handlers in flight, each at an await
    spawned,               \* number of commands and events received so far
    ready,                 \* db_driver.ready
    load,                  \* position and locals of load_database_data
    waiters                \* on_ready calls waiting for the Store

vars == <<now, provName, renames, streamRows, channelRows, subs, streams_by_id,
          msgs, polling, detached, last, absences, tasks, spawned, ready, load,
          waiters>>

store == <<streamRows, channelRows, subs>>
pollLocals == <<polling, detached>>
provider == <<provName, renames>>
startup == <<ready, load, waiters>>
handlers == <<tasks, spawned>>

\* ----------------------------------------------------------------- helpers
Range(f) == {f[x] : x \in DOMAIN f}

RECURSIVE SelectRows(_, _, _)
\* rows of q (a sequence) matching the channel / stream filter; 0 = no filter
SelectRows(q, ch, sid) ==
    IF q = <<>> THEN <<>>
    ELSE LET r == Head(q)
             rest == SelectRows(Tail(q), ch, sid)
         IN IF (ch = 0 \/ r.channel_id = ch) /\ (sid = 0 \/ r.stream_id = sid)
            THEN <<r>> \o rest ELSE rest

RECURSIVE RemoveFirst(_, _)
\* list.remove(x): drops the first element equal to x
RemoveFirst(q, x) ==
    IF q = <<>> THEN <<>>
    ELSE IF Head(q) = x THEN Tail(q) ELSE <<Head(q)>> \o RemoveFirst(Tail(q), x)

MapPut(f, k, v) == [x \in DOMAIN f \cup {k} |-> IF x = k THEN v ELSE f[x]]
MapDel(f, k) == [x \in DOMAIN f \ {k} |-> f[x]]

\* ------------------------------------------------------------ the Store
\* DBDriver.get_channel_stream(channel_id=, stream_id=)
get_channel_stream(ch, sid) == SelectRows(subs, ch, sid)

\* DBDriver.get_stream(name=): ids of the Stream rows with that name
get_stream_by_name(n) == {s \in DOMAIN streamRows : streamRows[s] = n}

\* DBDriver.create_stream(id=, name=): the id is the row's identity, so the
\* insert of an id already stored raises and stores nothing
create_stream(sid, n, rows) ==
    IF sid \in DOMAIN rows
    THEN [raised |-> TRUE, rows |-> rows]
    ELSE [raised |-> FALSE, rows |-> MapPut(rows, sid, n)]

\* DBDriver.create_channel(id=, ...): the id is the row's identity
create_channel(ch, chans) ==
    IF ch \in chans
    THEN [raised |-> TRUE, chans |-> chans]
    ELSE [raised |-> FALSE, chans |-> chans \cup {ch}]

Row(ch, sid, everyone) ==
    [channel_id |-> ch, stream_id |-> sid, everyone |-> everyone]

\* DBDriver.create_channel_stream(channel_id=, stream_id=, everyone=): the
\* Store inserts the row it is given; that a pair has one row at most is
\* left to the callers
create_channel_stream(ch, sid, everyone, q) == Append(q, Row(ch, sid, everyone))

\* ------------------------------------------------------------ the provider
\* TwitchAPIClient.get_ids(name)[name]; 0 stands for the KeyError of a name
\* the provider does not resolve
get_ids(n) ==
    IF \E s \in StreamIds : provName[s] = n
    THEN CHOOSE s \in StreamIds : provName[s] = n
    ELSE 0

\* ------------------------------------------------------------ the Registry
\* a Stream object as the database driver builds it
NewStream(n) ==
    [name |-> n, is_online |-> FALSE, last_offline_date |-> NoDate,
     notifications |-> <<>>]

\* Stream.offline_duration: stamps last_offline_date on its first use after a
\* reset and returns the time elapsed since the stamp
offline_duration(stream, t) ==
    LET d == IF stream.last_offline_date = NoDate THEN t
             ELSE stream.last_offline_date
    IN [stream |-> [stream EXCEPT !.last_offline_date = d], duration |-> t - d]

NoOp == [op |-> "none", ch |-> 0, n |-> "a", sid |-> 0, everyone |-> FALSE,
         ret |-> "none", found |-> <<>>, alone |-> TRUE, seq |-> TRUE]
NoStatus == [answered |-> FALSE, live |-> <<>>]
NoEvent == [sid |-> 0, kind |-> "none", handles |-> <<>>, tried |-> <<>>]

\* the loop is in no iteration. In one, k is the index of the list it walks,
\* n the notification it is editing, and the local "stream" is the
\* Registry's object of the current key (ref = 0) or the object detached[ref]
\* the Registry has let go of
NoIter == [k |-> 0, n |-> 0, ref |-> 0]

\* lines 60-63, 104: a poll_streams task before the first await of its
\* first tick; ev: what its last for-loop iteration did; since: when it
\* called the sleep it is in
NewLoop ==
    [pc |-> "fanout", channels_by_stream_id |-> <<>>, asked |-> {},
     status |-> NoStatus, todo |-> <<>>, iter |-> NoIter, crash |-> "none",
     ev |-> NoEvent, since |-> 0]

\* the ChannelStream tables a previous run has left in the Store
StoredSubs ==
    { <<Row(1, 1, FALSE)>>,
      <<Row(1, 1, TRUE), Row(2, 1, FALSE)>>,
      <<Row(1, 1, FALSE), Row(1, 2, FALSE)>>,
      <<Row(1, 2, FALSE), Row(1, 1, TRUE), Row(2, 1, FALSE)>> }

StoredNames == [s \in StreamIds |-> IF s = 1 THEN "a" ELSE "b"]

\* lines 32-45: load_database_data fills the Registry with one Stream object
\* per Stream row
Loaded(rows) == [s \in DOMAIN rows |-> NewStream(rows[s])]

\* load_database_data before its first await, and after its last line
LoadStart == [pc |-> "setup", streams |-> <<>>]
LoadDone == [pc |-> "done", streams |-> <<>>]

\* nothing in flight, no message posted, no tick begun
Quiet ==
    /\ msgs = <<>>
    /\ detached = <<>>
    /\ last = NoOp
    /\ absences = [s \in StreamIds |-> 0]
    /\ tasks = <<>>
    /\ spawned = 0

\* the Store is ready, the Registry loaded and the one polling loop launched
PollInit ==
    /\ Quiet
    /\ now = 0
    /\ polling = <<NewLoop>>
    /\ ready = TRUE
    /\ load = LoadDone
    /\ waiters = 0

\* a Store a previous run has filled, and the Registry loaded from it
StoredStore ==
    /\ streamRows = [s \in {r.stream_id : r \in Range(subs)} |-> StoredNames[s]]
    /\ channelRows = {r.channel_id : r \in Range(subs)}
    /\ streams_by_id = Loaded(streamRows)
    /\ renames = 0

\* the polling engine starts on a Store a previous run has filled; a stream
\* may have changed name at the provider since its row was stored
Init ==
    /\ PollInit
    /\ subs \in StoredSubs
    /\ StoredStore
    /\ provName \in {StoredNames, [StoredNames EXCEPT ![1] = "c"]}

\* the handlers start on a Store that is empty or filled by a previous run;
\* a stream may have changed name at the provider since its row was stored
InitCrud ==
    /\ PollInit
    /\ subs \in StoredSubs \cup {<<>>}
    /\ StoredStore
    /\ provName \in {StoredNames, [StoredNames EXCEPT ![1] = "c"]}

\* ------------------------------------------------------- the polling loop
RECURSIVE FanOut(_, _)
\* lines 104-107: the defaultdict(list) built from the ChannelStream rows, as
\* a sequence of [stream_id, notified] items in key-insertion order
FanOut(q, d) ==
    IF q = <<>> THEN d
    ELSE LET cs == Head(q)
             item == <<cs.channel_id, cs.everyone>>
             at == {i \in DOMAIN d : d[i].stream_id = cs.stream_id}
         IN IF at = {}
            THEN FanOut(Tail(q), Append(d, [stream_id |-> cs.stream_id,
                                            notified |-> <<item>>]))
            ELSE LET i == CHOOSE j \in at : TRUE
                 IN FanOut(Tail(q), [d EXCEPT ![i].notified = Append(@, item)])

\* channels_by_stream_id[sid]
Notified(d, sid) ==
    LET i == CHOOSE j \in DOMAIN d : d[j].stream_id = sid IN d[i].notified

\* the no-answer response taken for an answer
AnsweredAlways(st) == TRUE

\* line 116: status is not None
Answered(st) == st.answered

\* line 121: stream.id in status
IsPresent(sid, st) == sid \in DOMAIN st.live

\* the transition fired on any absence of an online stream
ThresholdAtOnce(duration) == duration >= 0

\* the threshold compared with >= instead of >
ThresholdReached(duration) == duration >= MIN_OFFLINE_DURATION

\* line 139: stream.offline_duration > CONF.MIN_OFFLINE_DURATION
ThresholdExceeded(duration) == duration > MIN_OFFLINE_DURATION

\* embeds.get_notification + bot.send: the message a notification starts as
NewMessage(sid, channel, everyone) ==
    [stream |-> sid, channel |-> channel, everyone |-> everyone,
     offline |-> FALSE, deleted |-> FALSE, attempts |-> 0]

\* the for loop left after its first item
FirstChannelOnly(notified, k) == FALSE

\* line 73: "for channel, everyone in notified_channels" has an item after
\* item k
MoreChannels(notified, k) == k < Len(notified)

\* line 84: "for notification in stream.notifications" has an item at the
\* list iterator's index k; the list is the one line 89 removes from
MoreNotifications(notifications, k) == k <= Len(notifications)

\* line 126: stream.update(name=).apply() is called without await, unlike
\* every other call on the database driver and its rows. update() sets the
\* name on the Stream object. If apply() is a plain method it writes the
\* name to the object's row at the call (runs); if it is a coroutine, as
\* the awaited delete() of the same rows is, nothing awaits it and the row
\* keeps its name
update_apply(sid, n, rows, runs) ==
    IF runs /\ sid \in DOMAIN rows THEN [rows EXCEPT ![sid] = n] ELSE rows

\* the debounce property read before the online flag is looked at
OfflineAbsentEager(stream, t) == offline_duration(stream, t).stream

\* line 139, flag false: "stream.is_online and ..." stops at the flag, the
\* offline_duration property is not read and the Stream object is left as is
OfflineAbsent(stream, t) == stream

\* the debounce stamp left in place when the stream is seen live
KeepOfflineDate(stream) == stream

\* line 122: stream.last_offline_date = None
ResetOffline(stream) == [stream EXCEPT !.last_offline_date = NoDate]

Outcome(stream, rows, next, kind) ==
    [stream |-> stream, rows |-> rows, next |-> next, kind |-> kind]

\* lines 121-139: the body of the for loop for one fan-out item whose stream
\* is in the Registry, up to its first await: the iteration goes on to the
\* sends of on_stream_online, to the edits of on_stream_offline, or is over;
\* runs: the apply() of line 126 writes at the call
Reconcile(sid, stream, st, t, rows, runs) ==
    IF IsPresent(sid, st)
    THEN LET s1 == ResetOffline(stream)
             renamed == s1.name /= st.live[sid]
             s2 == IF renamed THEN [s1 EXCEPT !.name = st.live[sid]] ELSE s1
             rows2 == IF renamed THEN update_apply(sid, st.live[sid], rows, runs)
                      ELSE rows
         IN IF ~s2.is_online
            THEN Outcome(s2, rows2, "send", "edge")
            ELSE Outcome(s2, rows2, "end",
                         IF stream.last_offline_date = NoDate
                         THEN "steady" ELSE "resumed")
    ELSE IF stream.is_online
    THEN LET od == offline_duration(stream, t)
         IN IF ThresholdExceeded(od.duration)
            THEN IF MoreNotifications(od.stream.notifications, 1)
                 THEN Outcome(od.stream, rows, "edit", "firing")
                 ELSE Outcome([od.stream EXCEPT !.is_online = FALSE], rows,
                              "end", "offline")
            ELSE Outcome(od.stream, rows, "end", "debounce")
    ELSE Outcome(OfflineAbsent(stream, t), rows, "end", "idle")

\* no other poll_streams task is between two of its awaits: task l may run
Turn(l) == \A o \in DOMAIN polling \ {l} : polling[o].pc /= "reconcile"

\* lines 104-110: the tick builds its fan-out table from the Store and calls
\* get_status with the ids the Registry holds at the call, or the query
\* raises and ends the task
TickFanout ==
    \E l \in DOMAIN polling :
       LET p == polling[l]
       IN /\ p.pc = "fanout"
          /\ Turn(l)
          /\ \E fail \in BOOLEAN :
                polling' = [polling EXCEPT ![l] =
                   IF fail
                   THEN [p EXCEPT !.pc = "stopped", !.crash = "store"]
                   ELSE [p EXCEPT !.pc = "status",
                                  !.channels_by_stream_id =
                                      FanOut(get_channel_stream(0, 0), <<>>),
                                  !.asked = DOMAIN streams_by_id]]
          /\ UNCHANGED <<now, provider, store, streams_by_id, msgs, detached,
                         last, absences, handlers, startup>>

\* lines 110-116, 143-145: the provider answers for the ids it was asked
\* about with the live ones among them, or does not answer
TickStatus ==
    \E l \in DOMAIN polling :
       LET p == polling[l]
       IN /\ p.pc = "status"
          /\ Turn(l)
          /\ \E answered \in BOOLEAN, live \in SUBSET p.asked :
                LET st == [answered |-> answered,
                           live |-> [s \in live |-> provName[s]]]
                IN /\ ~answered => live = {}
                   /\ polling' = [polling EXCEPT ![l] =
                         IF Answered(st) /\ p.channels_by_stream_id /= <<>>
                         THEN [p EXCEPT !.status = st,
                                        !.pc = "reconcile",
                                        !.todo = [i \in DOMAIN p.channels_by_stream_id |->
                                                     p.channels_by_stream_id[i].stream_id]]
                         ELSE [p EXCEPT !.status = st,
                                        !.pc = "sleep",
                                        !.todo = <<>>,
                                        !.since = now]]
          /\ UNCHANGED <<now, provider, store, streams_by_id, msgs, detached,
                         last, absences, handlers, startup>>

\* the answers in a row that have not held stream sid once this one is in,
\* counted up to one more than the debounce is said to need
Observe(n, sid, st) ==
    IF IsPresent(sid, st) THEN 0
    ELSE IF n > Needed THEN n ELSE n + 1

\* line 118: the iteration's local "stream" is the object the Registry held
\* under the key when the iteration began, whatever the Registry holds since
CurStream(p) ==
    IF p.iter.ref = 0 THEN streams_by_id[Head(p.todo)] ELSE detached[p.iter.ref]

\* an assignment to a field of the local "stream" shows in the Registry as
\* long as the Registry holds that object
Assigned(p, obj) ==
    IF p.iter.ref = 0 THEN [streams_by_id EXCEPT ![Head(p.todo)] = obj]
    ELSE streams_by_id

\* and otherwise in the object every iteration begun on it still holds
AssignedDetached(p, obj) ==
    IF p.iter.ref = 0 THEN detached ELSE [detached EXCEPT ![p.iter.ref] = obj]

\* task l leaves its iteration: the objects d no iteration holds any more
\* are gone
Released(l, d) ==
    IF \E o \in DOMAIN polling \ {l} :
          polling[o].pc \in {"send", "edit"} /\ polling[o].iter.ref /= 0
    THEN d ELSE <<>>

\* the iteration stops at its next await, at index k of the list it walks,
\* editing notification n if it walks the notifications
Continue(p, at, k, n) ==
    [p EXCEPT !.pc = at, !.iter = [k |-> k, n |-> n, ref |-> p.iter.ref]]

\* the iteration is over: the for loop takes its next item, or the tick
\* calls its sleep (line 145)
EndIteration(p) ==
    [p EXCEPT !.iter = NoIter,
              !.todo = Tail(p.todo),
              !.pc = IF Tail(p.todo) = <<>> THEN "sleep" ELSE "reconcile",
              !.since = IF Tail(p.todo) = <<>> THEN now ELSE 0]

\* an exception nothing catches ends the poll_streams task
Raise(p, why) ==
    [p EXCEPT !.pc = "stopped", !.crash = why, !.ev.kind = "raised",
              !.iter.ref = 0]

\* lines 117-139: an iteration of the for loop, up to its first await
ReconcileStream ==
    \E l \in DOMAIN polling :
       LET p == polling[l]
       IN /\ p.pc = "reconcile"
          /\ p.todo /= <<>>
          /\ LET sid == Head(p.todo)
                 notified == Notified(p.channels_by_stream_id, sid)
             IN IF sid \notin DOMAIN streams_by_id
                THEN \* line 118: KeyError
                     /\ polling' = [polling EXCEPT ![l] =
                           Raise([p EXCEPT !.ev = [NoEvent EXCEPT !.sid = sid]],
                                 "keyerror")]
                     /\ UNCHANGED <<streamRows, streams_by_id, absences>>
                ELSE \E runs \in BOOLEAN :
                     LET r == Reconcile(sid, streams_by_id[sid], p.status, now,
                                        streamRows, runs)
                         q == [p EXCEPT !.ev =
                                  [sid |-> sid, kind |-> r.kind,
                                   handles |-> IF r.kind = "firing"
                                               THEN r.stream.notifications ELSE <<>>,
                                   tried |-> <<>>]]
                     IN /\ r.next = "send" => Len(msgs) + Len(notified) <= MaxMsgs
                        /\ absences' = [absences EXCEPT
                                           ![sid] = Observe(@, sid, p.status)]
                        /\ streamRows' = r.rows
                        /\ streams_by_id' = Assigned(p, r.stream)
                        /\ polling' = [polling EXCEPT ![l] =
                              IF r.next = "end" THEN EndIteration(q)
                              ELSE IF r.next = "edit"
                              THEN Continue(q, "edit", 1, r.stream.notifications[1])
                              ELSE Continue(q, "send", 1, 0)]
          /\ UNCHANGED <<now, provider, channelRows, subs, msgs, detached, last,
                         handlers, startup>>

\* lines 73-76, 133: a send of on_stream_online returns and its handle is
\* appended, or the send raises; after the last send the flag is set
Send ==
    \E l \in DOMAIN polling :
       LET p == polling[l]
       IN /\ p.pc = "send"
          /\ Turn(l)
          /\ LET sid == Head(p.todo)
                 notified == Notified(p.channels_by_stream_id, sid)
                 k == p.iter.k
                 m == Len(msgs) + 1
                 obj == [CurStream(p) EXCEPT !.notifications = Append(@, m)]
             IN \E fail \in BOOLEAN :
                   IF fail
                   THEN /\ polling' = [polling EXCEPT ![l] = Raise(p, "dispatcher")]
                        /\ detached' = Released(l, detached)
                        /\ UNCHANGED <<streams_by_id, msgs>>
                   ELSE /\ Len(msgs) < MaxMsgs
                        /\ msgs' = Append(msgs, NewMessage(sid, notified[k][1],
                                                           notified[k][2]))
                        /\ IF MoreChannels(notified, k)
                           THEN /\ streams_by_id' = Assigned(p, obj)
                                /\ detached' = AssignedDetached(p, obj)
                                /\ polling' = [polling EXCEPT ![l] =
                                      Continue(p, "send", k + 1, 0)]
                           ELSE /\ streams_by_id' =
                                      Assigned(p, [obj EXCEPT !.is_online = TRUE])
                                /\ detached' = Released(l,
                                      AssignedDetached(p, [obj EXCEPT !.is_online = TRUE]))
                                /\ polling' = [polling EXCEPT ![l] =
                                      EndIteration([p EXCEPT !.ev.kind = "online"])]
          /\ UNCHANGED <<now, provider, store, last, absences, handlers, startup>>

\* lines 84-94, 141: the edit of on_stream_offline returns and its handle is
\* removed from the list being walked (ValueError if the list no longer
\* holds it), or the message is gone (NotFound) and the handle stays, or the
\* edit raises anything else; once the list iterator is exhausted the flag
\* is cleared
Edit ==
    \E l \in DOMAIN polling :
       LET p == polling[l]
       IN /\ p.pc = "edit"
          /\ Turn(l)
          /\ LET stream == CurStream(p)
                 k == p.iter.k
                 n == p.iter.n
                 tried == [msgs EXCEPT ![n].attempts = @ + 1]
                 obj == IF msgs[n].deleted THEN stream
                        ELSE [stream EXCEPT !.notifications = RemoveFirst(@, n)]
                 q == [p EXCEPT !.ev.tried = Append(@, n)]
             IN \E fail \in BOOLEAN :
                   IF fail
                   THEN /\ polling' = [polling EXCEPT ![l] = Raise(q, "dispatcher")]
                        /\ msgs' = tried
                        /\ detached' = Released(l, detached)
                        /\ UNCHANGED streams_by_id
                   ELSE IF ~msgs[n].deleted /\ n \notin Range(stream.notifications)
                   THEN /\ polling' = [polling EXCEPT ![l] = Raise(q, "valueerror")]
                        /\ msgs' = [tried EXCEPT ![n].offline = TRUE]
                        /\ detached' = Released(l, detached)
                        /\ UNCHANGED streams_by_id
                   ELSE /\ msgs' = IF msgs[n].deleted THEN tried
                                   ELSE [tried EXCEPT ![n].offline = TRUE]
                        /\ IF MoreNotifications(obj.notifications, k + 1)
                           THEN /\ streams_by_id' = Assigned(p, obj)
                                /\ detached' = AssignedDetached(p, obj)
                                /\ polling' = [polling EXCEPT ![l] =
                                      Continue(q, "edit", k + 1,
                                               obj.notifications[k + 1])]
                           ELSE /\ streams_by_id' =
                                      Assigned(p, [obj EXCEPT !.is_online = FALSE])
                                /\ detached' = Released(l,
                                      AssignedDetached(p, [obj EXCEPT !.is_online = FALSE]))
                                /\ polling' = [polling EXCEPT ![l] =
                                      EndIteration([q EXCEPT !.ev.kind = "offline"])]
          /\ UNCHANGED <<now, provider, store, last, absences, handlers, startup>>

\* lines 145, 104-105: asyncio.sleep(10) returns SLEEP plus a lag after its
\* call, no later than another sleeping task can still wake, and the next
\* tick begins
Sleep ==
    \E l \in DOMAIN polling :
       LET p == polling[l]
       IN /\ p.pc = "sleep"
          /\ Turn(l)
          /\ \E lag \in 0..MaxLag :
                LET t == p.since + SLEEP + lag
                IN /\ t >= now
                   /\ t <= MaxTime
                   /\ \A o \in DOMAIN polling :
                         polling[o].pc = "sleep" =>
                            t <= polling[o].since + SLEEP + MaxLag
                   /\ now' = t
                   /\ polling' = [polling EXCEPT ![l] =
                         [p EXCEPT !.pc = "fanout",
                                   !.channels_by_stream_id = <<>>,
                                   !.asked = {},
                                   !.since = 0]]
          /\ UNCHANGED <<provider, store, streams_by_id, msgs, detached, last,
                         absences, handlers, startup>>

\* every poll_streams task is suspended at an await or has ended: another
\* coroutine may run
LoopAwaits == \A l \in DOMAIN polling : polling[l].pc /= "reconcile"

\* the iteration of task l is suspended on the Registry's object of its key
Bound(l) ==
    polling[l].pc \in {"send", "edit"} /\ polling[l].iter.ref = 0

\* the ids among ids whose Registry object a suspended iteration holds
Held(ids) ==
    {s \in ids : \E l \in DOMAIN polling : Bound(l) /\ Head(polling[l].todo) = s}

\* where the object of s goes once the Registry lets go of it
Slot(ids, s) == Len(detached) + Cardinality({x \in Held(ids) : x <= s})

\* a handler's step replaces or lets go of Registry entries ids: the
\* iterations suspended on one of them keep the object they began with, one
\* object for all of them
Detach(ids) ==
    [l \in DOMAIN polling |->
        LET p == polling[l]
        IN IF Bound(l) /\ Head(p.todo) \in ids
           THEN [p EXCEPT !.iter.ref = Slot(ids, Head(p.todo))]
           ELSE p]

\* and the objects are kept for as long as an iteration holds them
LetGo(ids) ==
    [i \in 1..(Len(detached) + Cardinality(Held(ids))) |->
        IF i <= Len(detached) THEN detached[i]
        ELSE streams_by_id[CHOOSE s \in Held(ids) : Slot(ids, s) = i]]

\* --------------------------------------------------------- the environment
\* a streamer changes name at the provider
Rename ==
    \E s \in StreamIds, n \in Names :
       /\ renames < MaxRenames
       /\ \A x \in StreamIds : provName[x] /= n
       /\ provName' = [provName EXCEPT ![s] = n]
       /\ renames' = renames + 1
       /\ UNCHANGED <<now, store, streams_by_id, msgs, pollLocals, last, absences,
                      handlers, startup>>

\* a user deletes a posted notification
DeleteMessage ==
    \E m \in DOMAIN msgs :
       /\ ~msgs[m].deleted
       /\ msgs' = [msgs EXCEPT ![m].deleted = TRUE]
       /\ UNCHANGED <<now, provider, store, streams_by_id, pollLocals, last,
                      absences, handlers, startup>>

\* the polling engine, the Dispatcher's users deleting notifications
Next ==
    \/ TickFanout
    \/ TickStatus
    \/ ReconcileStream
    \/ Send
    \/ Edit
    \/ Sleep
    \/ DeleteMessage

Spec == Init /\ [][Next]_vars

\* ------------------------------- command and event handlers, await by await
\* a handler task: the command's arguments, the stream id once resolved, the
\* rows an event handler walks and the await the coroutine is suspended at;
\* alone: no other handler has been in flight since this one began
Task(op, ch, n, everyone, alone) ==
    [op |-> op, ch |-> ch, n |-> n, everyone |-> everyone, sid |-> 0,
     at |-> IF op = "delete" THEN "get_channel_stream" ELSE "get_ids",
     found |-> <<>>, j |-> 0, alone |-> alone]

\* what a handler that has returned or raised is remembered by; seq: it and
\* every handler before it ran alone
Done(t, ret) ==
    [op |-> t.op, ch |-> t.ch, n |-> t.n, sid |-> t.sid,
     everyone |-> t.everyone, ret |-> ret, found |-> t.found,
     alone |-> t.alone, seq |-> last.seq /\ t.alone]

Without(q, i) == [j \in 1..(Len(q) - 1) |-> IF j < i THEN q[j] ELSE q[j + 1]]

At(i, op, at) == i \in DOMAIN tasks /\ tasks[i].op = op /\ tasks[i].at = at

\* the coroutine of task i moves on to its next await
Goto(i, at) == tasks' = [tasks EXCEPT ![i].at = at]

\* the coroutine of task i returns or raises
Finish(i, ret) ==
    /\ tasks' = Without(tasks, i)
    /\ last' = Done(tasks[i], ret)

\* the rest of the state a handler step leaves alone; the step runs while
\* every polling loop is suspended, and an iteration suspended on one of the
\* Registry entries ids the step replaces or deletes keeps its object
HandlerFrameAt(ids) ==
    /\ LoopAwaits
    /\ polling' = Detach(ids)
    /\ detached' = LetGo(ids)
    /\ UNCHANGED <<now, provider, msgs, absences, spawned, startup>>

HandlerFrame == HandlerFrameAt({})

\* a user sends an add, everyone or remove command (lines 218-242, 270-281)
\* or deletes a channel (line 284): a handler task begins
Receive ==
    /\ LoopAwaits
    /\ Len(tasks) < MaxTasks
    /\ \E op \in {"add", "remove", "delete"}, ch \in ChannelIds, n \in Names,
          everyone \in BOOLEAN :
          /\ op = "remove" => ~everyone
          /\ op = "delete" => ~everyone /\ n = "a"
          /\ tasks' = Append([j \in DOMAIN tasks |-> [tasks[j] EXCEPT !.alone = FALSE]],
                             Task(op, ch, n, everyone, tasks = <<>>))
    /\ spawned' = spawned + 1
    /\ UNCHANGED <<now, provider, store, streams_by_id, msgs, pollLocals, last,
                   absences, startup>>

\* a command or an event arrives, the MaxSpawned-th at most
Command ==
    /\ spawned < MaxSpawned
    /\ Receive

\* lines 193, 245: await self.client.get_ids(stream_name), then [stream_name]
GetIds ==
    \E i \in DOMAIN tasks :
       /\ tasks[i].op \in {"add", "remove"}
       /\ tasks[i].at = "get_ids"
       /\ LET sid == get_ids(tasks[i].n)
          IN IF sid = 0
             THEN Finish(i, "raise")
             ELSE /\ tasks' = [tasks EXCEPT ![i].sid = sid,
                                            ![i].at = "get_channel_stream"]
                  /\ UNCHANGED last
       /\ UNCHANGED <<store, streams_by_id>>
       /\ HandlerFrame

\* line 194: if not await get_channel_stream(channel_id=, stream_id=)
AddGetChannelStream ==
    \E i \in DOMAIN tasks :
       /\ At(i, "add", "get_channel_stream")
       /\ IF get_channel_stream(tasks[i].ch, tasks[i].sid) /= <<>>
          THEN Finish(i, "false")
          ELSE Goto(i, "get_stream") /\ UNCHANGED last
       /\ UNCHANGED <<store, streams_by_id>>
       /\ HandlerFrame

\* line 197: if not await get_stream(name=stream_name)
AddGetStream ==
    \E i \in DOMAIN tasks :
       /\ At(i, "add", "get_stream")
       /\ IF get_stream_by_name(tasks[i].n) = {}
          THEN Goto(i, "create_stream")
          ELSE Goto(i, "get_channel")
       /\ UNCHANGED <<store, streams_by_id, last>>
       /\ HandlerFrame

\* lines 198-199: stream = await create_stream(...); streams_by_id[id] = stream
AddCreateStream ==
    \E i \in DOMAIN tasks :
       /\ At(i, "add", "create_stream")
       /\ LET c == create_stream(tasks[i].sid, tasks[i].n, streamRows)
          IN IF c.raised
             THEN /\ Finish(i, "raise")
                  /\ UNCHANGED <<streamRows, streams_by_id>>
                  /\ HandlerFrame
             ELSE /\ streamRows' = c.rows
                  /\ streams_by_id' = MapPut(streams_by_id, tasks[i].sid,
                                             NewStream(tasks[i].n))
                  /\ Goto(i, "get_channel")
                  /\ UNCHANGED last
                  /\ HandlerFrameAt({tasks[i].sid})
       /\ UNCHANGED <<channelRows, subs>>

\* line 204: if not await get_channel(id=channel.id)
AddGetChannel ==
    \E i \in DOMAIN tasks :
       /\ At(i, "add", "get_channel")
       /\ IF tasks[i].ch \notin channelRows
          THEN Goto(i, "create_channel")
          ELSE Goto(i, "create_channel_stream")
       /\ UNCHANGED <<store, streams_by_id, last>>
       /\ HandlerFrame

\* line 205: await create_channel(...)
AddCreateChannel ==
    \E i \in DOMAIN tasks :
       /\ At(i, "add", "create_channel")
       /\ LET c == create_channel(tasks[i].ch, channelRows)
          IN IF c.raised
             THEN Finish(i, "raise") /\ UNCHANGED channelRows
             ELSE /\ channelRows' = c.chans
                  /\ Goto(i, "create_channel_stream")
                  /\ UNCHANGED last
       /\ UNCHANGED <<streamRows, subs, streams_by_id>>
       /\ HandlerFrame

\* lines 211-212, 227-228, 240-241: await create_channel_stream(...);
\* return True, and the command sends its reply
AddCreateChannelStream ==
    \E i \in DOMAIN tasks :
       /\ At(i, "add", "create_channel_stream")
       /\ subs' = create_channel_stream(tasks[i].ch, tasks[i].sid,
                                        tasks[i].everyone, subs)
       /\ Goto(i, "reply")
       /\ UNCHANGED last
       /\ UNCHANGED <<streamRows, channelRows, streams_by_id>>
       /\ HandlerFrame

\* lines 246-248: channel_streams = await get_channel_stream(...); [0]
RemoveGetChannelStream ==
    \E i \in DOMAIN tasks :
       /\ At(i, "remove", "get_channel_stream")
       /\ IF get_channel_stream(tasks[i].ch, tasks[i].sid) = <<>>
          THEN Finish(i, "none")
          ELSE Goto(i, "get_channel") /\ UNCHANGED last
       /\ UNCHANGED <<store, streams_by_id>>
       /\ HandlerFrame

\* line 249: channel_db = (await get_channel(id=))[0]
RemoveGetChannel ==
    \E i \in DOMAIN tasks :
       /\ At(i, "remove", "get_channel")
       /\ IF tasks[i].ch \notin channelRows
          THEN Finish(i, "raise")
          ELSE Goto(i, "get_stream") /\ UNCHANGED last
       /\ UNCHANGED <<store, streams_by_id>>
       /\ HandlerFrame

\* line 250: stream_db = (await get_stream(id=))[0]
RemoveGetStream ==
    \E i \in DOMAIN tasks :
       /\ At(i, "remove", "get_stream")
       /\ IF tasks[i].sid \notin DOMAIN streamRows
          THEN Finish(i, "raise")
          ELSE Goto(i, "delete_channel_stream") /\ UNCHANGED last
       /\ UNCHANGED <<store, streams_by_id>>
       /\ HandlerFrame

\* line 253: await channel_stream.delete()
RemoveDeleteChannelStream ==
    \E i \in DOMAIN tasks :
       /\ At(i, "remove", "delete_channel_stream")
       /\ LET found == get_channel_stream(tasks[i].ch, tasks[i].sid)
          IN subs' = IF found = <<>> THEN subs ELSE RemoveFirst(subs, found[1])
       /\ Goto(i, "channel_subs")
       /\ UNCHANGED <<streamRows, channelRows, streams_by_id, last>>
       /\ HandlerFrame

\* line 257: if not await get_channel_stream(channel_id=channel.id)
RemoveChannelSubs ==
    \E i \in DOMAIN tasks :
       /\ At(i, "remove", "channel_subs")
       /\ IF get_channel_stream(tasks[i].ch, 0) = <<>>
          THEN Goto(i, "delete_channel")
          ELSE Goto(i, "stream_subs")
       /\ UNCHANGED <<store, streams_by_id, last>>
       /\ HandlerFrame

\* line 260: await channel_db.delete()
RemoveDeleteChannel ==
    \E i \in DOMAIN tasks :
       /\ At(i, "remove", "delete_channel")
       /\ channelRows' = channelRows \ {tasks[i].ch}
       /\ Goto(i, "stream_subs")
       /\ UNCHANGED <<streamRows, subs, streams_by_id, last>>
       /\ HandlerFrame

\* lines 263-268, 279-280: if not await get_channel_stream(stream_id=), then
\* del self.streams_by_id[stream_db.id]; else return True, and the command
\* sends its reply
RemoveStreamSubs ==
    \E i \in DOMAIN tasks :
       /\ At(i, "remove", "stream_subs")
       /\ IF get_channel_stream(0, tasks[i].sid) /= <<>>
          THEN /\ Goto(i, "reply")
               /\ UNCHANGED <<streams_by_id, last>>
               /\ HandlerFrame
          ELSE IF tasks[i].sid \notin DOMAIN streams_by_id
          THEN /\ Finish(i, "raise")
               /\ UNCHANGED streams_by_id
               /\ HandlerFrame
          ELSE /\ streams_by_id' = MapDel(streams_by_id, tasks[i].sid)
               /\ Goto(i, "delete_stream")
               /\ UNCHANGED last
               /\ HandlerFrameAt({tasks[i].sid})
       /\ UNCHANGED store

\* lines 267-268, 279-280: await stream_db.delete(); return True, and the
\* command sends its reply
RemoveDeleteStream ==
    \E i \in DOMAIN tasks :
       /\ At(i, "remove", "delete_stream")
       /\ streamRows' = IF tasks[i].sid \in DOMAIN streamRows
                        THEN MapDel(streamRows, tasks[i].sid) ELSE streamRows
       /\ Goto(i, "reply")
       /\ UNCHANGED <<channelRows, subs, streams_by_id, last>>
       /\ HandlerFrame

\* lines 227-229, 240-242, 279-281: the reply of the command is sent
Reply ==
    \E i \in DOMAIN tasks :
       /\ tasks[i].at = "reply"
       /\ Finish(i, "true")
       /\ UNCHANGED <<store, streams_by_id>>
       /\ HandlerFrame

\* the for loop of on_guild_channel_delete takes its next row, or the
\* handler returns
NextRow(i) ==
    IF tasks[i].j < Len(tasks[i].found)
    THEN /\ tasks' = [tasks EXCEPT ![i].j = @ + 1,
                                   ![i].sid = tasks[i].found[tasks[i].j + 1].stream_id,
                                   ![i].at = "get_stream"]
         /\ UNCHANGED last
    ELSE Finish(i, "none")

\* line 291: for channel_stream in await get_channel_stream(channel_id=)
DeleteGetChannelStream ==
    \E i \in DOMAIN tasks :
       /\ At(i, "delete", "get_channel_stream")
       /\ LET found == get_channel_stream(tasks[i].ch, 0)
          IN IF found = <<>>
             THEN Finish(i, "none")
             ELSE /\ tasks' = [tasks EXCEPT ![i].found = found,
                                            ![i].j = 1,
                                            ![i].sid = found[1].stream_id,
                                            ![i].at = "get_stream"]
                  /\ UNCHANGED last
       /\ UNCHANGED <<store, streams_by_id>>
       /\ HandlerFrame

\* line 293: stream = (await get_stream(id=channel_stream.stream_id))[0]
DeleteGetStream ==
    \E i \in DOMAIN tasks :
       /\ At(i, "delete", "get_stream")
       /\ IF tasks[i].sid \notin DOMAIN streamRows
          THEN Finish(i, "raise")
          ELSE Goto(i, "delete_channel_stream") /\ UNCHANGED last
       /\ UNCHANGED <<store, streams_by_id>>
       /\ HandlerFrame

\* line 294: await channel_stream.delete()
DeleteDeleteChannelStream ==
    \E i \in DOMAIN tasks :
       /\ At(i, "delete", "delete_channel_stream")
       /\ LET found == get_channel_stream(tasks[i].ch, tasks[i].sid)
          IN subs' = IF found = <<>> THEN subs ELSE RemoveFirst(subs, found[1])
       /\ Goto(i, "stream_subs")
       /\ UNCHANGED <<streamRows, channelRows, streams_by_id, last>>
       /\ HandlerFrame

\* line 298: if not await get_channel_stream(stream_id=stream.id)
DeleteStreamSubs ==
    \E i \in DOMAIN tasks :
       /\ At(i, "delete", "stream_subs")
       /\ IF get_channel_stream(0, tasks[i].sid) = <<>>
          THEN Goto(i, "delete_stream") /\ UNCHANGED last
          ELSE NextRow(i)
       /\ UNCHANGED <<store, streams_by_id>>
       /\ HandlerFrame

\* line 301: await stream.delete(); the Channel row and the Registry entry
\* are left as they are
DeleteDeleteStream ==
    \E i \in DOMAIN tasks :
       /\ At(i, "delete", "delete_stream")
       /\ streamRows' = IF tasks[i].sid \in DOMAIN streamRows
                        THEN MapDel(streamRows, tasks[i].sid) ELSE streamRows
       /\ NextRow(i)
       /\ UNCHANGED <<channelRows, subs, streams_by_id>>
       /\ HandlerFrame

\* the handlers start on a Store that is empty or filled by a previous run
InitConc ==
    /\ PollInit
    /\ subs \in StoredSubs \cup {<<>>}
    /\ StoredStore
    /\ provName = StoredNames

\* up to MaxTasks handlers run at once, interleaved at their awaits
NextConc ==
    \/ Command
    \/ GetIds
    \/ AddGetChannelStream
    \/ AddGetStream
    \/ AddCreateStream
    \/ AddGetChannel
    \/ AddCreateChannel
    \/ AddCreateChannelStream
    \/ RemoveGetChannelStream
    \/ RemoveGetChannel
    \/ RemoveGetStream
    \/ RemoveDeleteChannelStream
    \/ RemoveChannelSubs
    \/ RemoveDeleteChannel
    \/ RemoveStreamSubs
    \/ RemoveDeleteStream
    \/ Reply
    \/ DeleteGetChannelStream
    \/ DeleteGetStream
    \/ DeleteDeleteChannelStream
    \/ DeleteStreamSubs
    \/ DeleteDeleteStream

SpecConc == InitConc /\ [][NextConc]_vars

\* the handlers, with streamers changing name at the provider
NextCrud ==
    \/ Command
    \/ GetIds
    \/ AddGetChannelStream
    \/ AddGetStream
    \/ AddCreateStream
    \/ AddGetChannel
    \/ AddCreateChannel
    \/ AddCreateChannelStream
    \/ RemoveGetChannelStream
    \/ RemoveGetChannel
    \/ RemoveGetStream
    \/ RemoveDeleteChannelStream
    \/ RemoveChannelSubs
    \/ RemoveDeleteChannel
    \/ RemoveStreamSubs
    \/ RemoveDeleteStream
    \/ Reply
    \/ DeleteGetChannelStream
    \/ DeleteGetStream
    \/ DeleteDeleteChannelStream
    \/ DeleteStreamSubs
    \/ DeleteDeleteStream
    \/ Rename

SpecCrud == InitCrud /\ [][NextCrud]_vars

\* ------------------------------------------------------------- the startup
\* DBDriver.setup(): the driver reports itself ready once it has returned
setup_ready == TRUE

\* the polling launched whatever the driver reports
DriverReadyAssumed == TRUE

\* line 50: self.db_driver.ready
DriverReady == ready

\* the rest of the state a startup step leaves alone; the step runs while
\* the polling loops, if any, are suspended
StartFrame ==
    /\ LoopAwaits
    /\ UNCHANGED <<now, provider, store, msgs, last, absences, tasks>>

\* line 34: await self.db_driver.setup()
LoadSetup ==
    /\ load.pc = "setup"
    /\ ready' = setup_ready
    /\ load' = [load EXCEPT !.pc = "get_stream"]
    /\ UNCHANGED <<streams_by_id, pollLocals, waiters, spawned>>
    /\ StartFrame

\* line 36: streams = await self.db_driver.get_stream()
LoadGetStream ==
    /\ load.pc = "get_stream"
    /\ load' = [pc |-> "get_channel", streams |-> streamRows]
    /\ UNCHANGED <<streams_by_id, pollLocals, ready, waiters, spawned>>
    /\ StartFrame

\* line 39: channels = await self.db_driver.get_channel()
LoadGetChannel ==
    /\ load.pc = "get_channel"
    /\ load' = [load EXCEPT !.pc = "get_channel_stream"]
    /\ UNCHANGED <<streams_by_id, pollLocals, ready, waiters, spawned>>
    /\ StartFrame

\* lines 42-45: channel_streams = await get_channel_stream(), then the
\* Registry is replaced by one Stream object per row read at line 36
LoadGetChannelStream ==
    /\ load.pc = "get_channel_stream"
    /\ streams_by_id' = Loaded(load.streams)
    /\ polling' = Detach(StreamIds)
    /\ detached' = LetGo(StreamIds)
    /\ load' = LoadDone
    /\ UNCHANGED <<ready, waiters, spawned>>
    /\ StartFrame

\* discord calls on_ready, at login and again after a reconnection that
\* could not resume the session
OnReady ==
    /\ spawned < MaxReady
    /\ spawned' = spawned + 1
    /\ waiters' = waiters + 1
    /\ UNCHANGED <<streams_by_id, pollLocals, ready, load>>
    /\ StartFrame

\* lines 50-55: while not ready, sleep(1) and look again; once ready,
\* ensure_future(self.poll_streams())
ReadyCheck ==
    /\ waiters > 0
    /\ IF DriverReady
       THEN /\ waiters' = waiters - 1
            /\ polling' = Append(polling, NewLoop)
       ELSE UNCHANGED <<waiters, polling>>
    /\ UNCHANGED <<streams_by_id, detached, ready, load, spawned>>
    /\ StartFrame

\* the cog is constructed on a Store a previous run has filled: the Registry
\* is empty, load_database_data is scheduled, no polling loop exists
InitStart ==
    /\ Quiet
    /\ now = 0
    /\ polling = <<>>
    /\ ready = FALSE
    /\ load = LoadStart
    /\ waiters = 0
    /\ subs \in {<<>>, <<Row(1, 1, FALSE)>>}
    /\ streamRows = [s \in {r.stream_id : r \in Range(subs)} |-> StoredNames[s]]
    /\ channelRows = {r.channel_id : r \in Range(subs)}
    /\ streams_by_id = <<>>
    /\ provName = StoredNames
    /\ renames = 0

\* the startup load, the on_ready events and the polling loops they launch,
\* every loop stepping at its own awaits
NextStart ==
    \/ LoadSetup
    \/ LoadGetStream
    \/ LoadGetChannel
    \/ LoadGetChannelStream
    \/ OnReady
    \/ ReadyCheck
    \/ TickFanout
    \/ TickStatus
    \/ ReconcileStream
    \/ Send
    \/ Edit
    \/ Sleep

SpecStart == InitStart /\ [][NextStart]_vars

\* ------------------------------------- commands while the loop is polling
\* a command or an event arrives while the loop polls, the MaxCommands-th
\* at most
CommandWhilePolling ==
    /\ spawned < MaxCommands
    /\ Receive

\* the polling loop with the handlers of up to MaxCommands commands and
\* events, interleaved wherever the loop or a handler awaits
NextMix ==
    \/ TickFanout
    \/ TickStatus
    \/ ReconcileStream
    \/ Send
    \/ Edit
    \/ Sleep
    \/ CommandWhilePolling
    \/ GetIds
    \/ AddGetChannelStream
    \/ AddGetStream
    \/ AddCreateStream
    \/ AddGetChannel
    \/ AddCreateChannel
    \/ AddCreateChannelStream
    \/ RemoveGetChannelStream
    \/ RemoveGetChannel
    \/ RemoveGetStream
    \/ RemoveDeleteChannelStream
    \/ RemoveChannelSubs
    \/ RemoveDeleteChannel
    \/ RemoveStreamSubs
    \/ RemoveDeleteStream
    \/ Reply
    \/ DeleteGetChannelStream
    \/ DeleteGetStream
    \/ DeleteDeleteChannelStream
    \/ DeleteStreamSubs
    \/ DeleteDeleteStream

\* the loaded Store and Registry, every stream under its stored name, one
\* stream subscribed by one channel or by two
InitMix ==
    /\ Init
    /\ provName = StoredNames
    /\ DOMAIN streamRows = {1}

SpecMix == InitMix /\ [][NextMix]_vars

\* -------------------------------------------------------------- properties
\* the position and the locals of the first poll_streams task
pc == polling[1].pc
channels_by_stream_id == polling[1].channels_by_stream_id
status == polling[1].status
todo == polling[1].todo
iter == polling[1].iter
crash == polling[1].crash
ev == polling[1].ev

Registered(s) == s \in DOMAIN streams_by_id
Online(s) == Registered(s) /\ streams_by_id[s].is_online

\* the tick is at the for-loop iteration of the registered stream s
Reconciling(s) ==
    pc = "reconcile" /\ todo /= <<>> /\ Head(todo) = s /\ Registered(s)

\* the step begins that iteration: it runs it to its first await, or to its
\* end when it has none
Begins(s) == Reconciling(s) /\ (pc' /= pc \/ todo' /= todo)

\* the iteration of stream s is suspended at a send, or at an edit
Sending(s) == pc = "send" /\ Head(todo) = s /\ Registered(s)
Editing(s) == pc = "edit" /\ Head(todo) = s /\ Registered(s)

\* the step is the last of an iteration (nothing raised)
Ends == todo /= <<>> /\ todo' = Tail(todo)

\* the debounce stamp an absent observation of stream s at this tick works with
FirstAbsence(s) ==
    IF streams_by_id[s].last_offline_date = NoDate THEN now
    ELSE streams_by_id[s].last_offline_date

\* a step edits, or tries to edit, message m
Edited(m) == msgs'[m].attempts /= msgs[m].attempts \/ msgs'[m].offline /= msgs[m].offline

\* C1: for an online stream S absent from the provider's answer, the first
\* absence stamps last-offline = T0, and a tick performs the offline
\* transition (edits the notifications, sets the online flag false) if and
\* only if now - T0 > MIN_OFFLINE_DURATION at that tick; notifications are
\* edited and the flag falls only in such a step of a stream whose flag is
\* true, so at most once between two OFFLINE->ONLINE edges.
C1_OfflineIffThresholdExceeded ==
    [][\A s \in StreamIds :
         /\ (Begins(s) /\ Online(s) /\ ~IsPresent(s, status)) =>
               LET T0 == streams_by_id'[s].last_offline_date
                   fires == now - T0 > MIN_OFFLINE_DURATION
               IN /\ T0 = FirstAbsence(s)
                  /\ (pc' = "edit" \/ ~streams_by_id'[s].is_online) <=> fires
                  /\ pc' = "edit" <=> (fires /\ streams_by_id[s].notifications /= <<>>)
         /\ (Editing(s) /\ Ends) => ~streams_by_id'[s].is_online
         /\ ((Online(s) /\ ~streams_by_id'[s].is_online)
             \/ (\E m \in DOMAIN msgs : msgs[m].stream = s /\ Edited(m))) =>
               /\ Reconciling(s) \/ Editing(s)
               /\ Online(s) /\ ~IsPresent(s, status)
               /\ now - FirstAbsence(s) > MIN_OFFLINE_DURATION
      ]_vars

\* C1 witness: a tick has performed the offline transition of a stream, more
\* than MIN_OFFLINE_DURATION after its first absence
C1_Witness ==
    /\ ev.kind = "offline"
    /\ Registered(ev.sid) /\ ~streams_by_id[ev.sid].is_online
    /\ streams_by_id[ev.sid].last_offline_date /= NoDate
    /\ now - streams_by_id[ev.sid].last_offline_date > MIN_OFFLINE_DURATION
    /\ \E m \in DOMAIN msgs : msgs[m].stream = ev.sid /\ msgs[m].offline

\* C2: an online stream X that is absent and then present again within
\* MIN_OFFLINE_DURATION of its first absence: no tick of that window edits a
\* notification of X or posts one, the online flag stays true, and after the
\* tick on which X is present the last-offline timestamp is null again.
C2_FlapIsSilent ==
    [][\A s \in StreamIds :
         (Begins(s) /\ Online(s)) =>
            /\ (~IsPresent(s, status)
                /\ now - FirstAbsence(s) <= MIN_OFFLINE_DURATION) =>
                  /\ Ends
                  /\ msgs' = msgs
                  /\ streams_by_id'[s].is_online
                  /\ streams_by_id'[s].notifications = streams_by_id[s].notifications
            /\ IsPresent(s, status) =>
                  /\ Ends
                  /\ msgs' = msgs
                  /\ streams_by_id'[s].is_online
                  /\ streams_by_id'[s].notifications = streams_by_id[s].notifications
                  /\ streams_by_id'[s].last_offline_date = NoDate
      ]_vars

\* C2 witness: a stream seen absent while online has been seen live again
\* before the threshold; it is online with its first notification untouched
C2_Witness ==
    /\ ev.kind = "resumed"
    /\ Online(ev.sid)
    /\ streams_by_id[ev.sid].last_offline_date = NoDate
    /\ streams_by_id[ev.sid].notifications /= <<>>
    /\ \A m \in DOMAIN msgs : msgs[m].stream = ev.sid => ~msgs[m].offline

\* C3: a tick whose provider query gets no answer goes straight to its sleep
\* and changes neither the Registry, the Store nor any notification; only
\* the for loop of an answered tick does.
C3_NoAnswerTickIsNoOp ==
    [][/\ (pc = "status" /\ pc' /= pc /\ ~status'.answered) =>
             pc' = "sleep" /\ todo' = <<>>
       /\ (pc \in {"fanout", "status", "sleep"} /\ pc' /= pc) =>
             UNCHANGED <<store, streams_by_id, msgs>>
       /\ pc' \in {"reconcile", "send", "edit"} => status'.answered
      ]_vars

\* C3 witness: a no-answer tick has ended while a stream with subscribers is
\* online
C3_Witness ==
    /\ pc = "sleep"
    /\ ~status.answered
    /\ channels_by_stream_id /= <<>>
    /\ \E s \in StreamIds : Online(s) /\ streams_by_id[s].notifications /= <<>>

\* C4: after onDestinationDeleted(D), run with no other handler in flight,
\* for a destination D that held a subscription to a stream S that no other
\* destination subscribes to, the Store has no Destination row of D, no
\* Stream row of S and no Subscription of D, and the Registry has no entry
\* of S.
C4_DeletedDestinationIsGone ==
    [][\A d \in ChannelIds, s \in StreamIds :
         (/\ last' /= last /\ last'.op = "delete" /\ last'.ch = d
          /\ last'.alone
          /\ \E j \in DOMAIN last'.found : last'.found[j].stream_id = s
          /\ SelectRows(subs', 0, s) = <<>>) =>
            /\ d \notin channelRows'
            /\ s \notin DOMAIN streamRows'
            /\ SelectRows(subs', d, 0) = <<>>
            /\ s \notin DOMAIN streams_by_id'
      ]_vars

\* C5: on an OFFLINE->ONLINE edge of stream S the tick posts exactly one
\* notification to each (destination, broad-audience) pair of S's fan-out
\* list, appends each handle to S's outstanding notifications and sets the
\* online flag true; a tick on which S is present with the flag true posts
\* nothing, and nothing is posted outside an edge.
C5_OnlineEdgePostsOncePerPair ==
    [][\A s \in StreamIds :
         /\ (Begins(s) /\ ~Online(s) /\ IsPresent(s, status)) =>
               /\ pc' = "send" /\ iter'.k = 1
               /\ msgs' = msgs
               /\ streams_by_id'[s].notifications = streams_by_id[s].notifications
         /\ Sending(s) =>
               LET notified == Notified(channels_by_stream_id, s)
                   handles == streams_by_id[s].notifications
                   sent == iter.k - 1
               IN /\ ~Online(s) /\ IsPresent(s, status)
                  /\ iter.k \in 1..Len(notified)
                  /\ \A i \in 1..sent :
                        LET m == handles[Len(handles) - sent + i]
                        IN /\ m = Len(msgs) - sent + i
                           /\ msgs[m].stream = s
                           /\ msgs[m].channel = notified[i][1]
                           /\ msgs[m].everyone = notified[i][2]
         /\ (Sending(s) /\ Len(msgs') /= Len(msgs)) =>
               LET notified == Notified(channels_by_stream_id, s)
                   n0 == Len(msgs)
               IN /\ Len(msgs') = n0 + 1
                  /\ msgs'[n0 + 1] = NewMessage(s, notified[iter.k][1],
                                                notified[iter.k][2])
                  /\ \A m \in DOMAIN msgs : msgs'[m] = msgs[m]
                  /\ streams_by_id'[s].notifications =
                        Append(streams_by_id[s].notifications, n0 + 1)
                  /\ IF iter.k < Len(notified)
                     THEN /\ pc' = "send" /\ iter'.k = iter.k + 1 /\ todo' = todo
                          /\ ~streams_by_id'[s].is_online
                     ELSE /\ Ends
                          /\ streams_by_id'[s].is_online
         /\ (Begins(s) /\ Online(s) /\ IsPresent(s, status)) =>
               Ends /\ Len(msgs') = Len(msgs)
         /\ (\E m \in DOMAIN msgs' \ DOMAIN msgs : msgs'[m].stream = s) =>
               Sending(s)
      ]_vars

\* C5 witness: an online edge has posted to both channels of a stream
C5_Witness ==
    /\ ev.kind = "online"
    /\ Online(ev.sid)
    /\ Len(streams_by_id[ev.sid].notifications) >= 2
    /\ Len(Notified(channels_by_stream_id, ev.sid)) >= 2

\* C6: when the offline transition of stream S fires, every handle in S's
\* outstanding-notification list at that moment gets exactly one edit
\* attempt in that tick, however many handles there are (ev.handles is the
\* list at the firing, ev.tried the edits attempted since).
C6_EveryHandleEditedOnce ==
    [][\A s \in StreamIds :
         (Editing(s) /\ Ends) =>
            \A i \in DOMAIN ev'.handles :
               Cardinality({j \in DOMAIN ev'.tried :
                               ev'.tried[j] = ev'.handles[i]}) = 1
      ]_vars

\* C7: between ticks, a stream whose online flag is false has no outstanding
\* notification handle (the offline transition dropped the edited handles
\* and the not-found ones).
C7_OfflineHasNoHandles ==
    pc \in {"sleep", "fanout"} =>
       \A s \in DOMAIN streams_by_id :
          ~streams_by_id[s].is_online => streams_by_id[s].notifications = <<>>

\* C8: when a Dispatcher or Store call fails while the tick reconciles one
\* stream, the other streams of the fan-out table are still reconciled in
\* that tick: the tick never ends on a failure with streams left over.
C8_FailureIsIsolated ==
    crash \in {"dispatcher", "store"} => Len(todo) <= 1

\* C9: the polling loop keeps ticking whatever fails during a tick: the
\* poll_streams task never ends.
C9_LoopNeverStops == pc /= "stopped"

\* C10: addSubscription for a (destination, stream) pair, run with no other
\* handler in flight, returns true or false and leaves exactly one
\* Subscription row of the pair, the Stream row, the Destination row and the
\* Registry entry; called again with the same arguments after it returned
\* true, it returns false and changes neither Store nor Registry.
C10_AddIsIdempotent ==
    [][\A d \in ChannelIds, s \in StreamIds :
         /\ (/\ last' /= last /\ last'.op = "add" /\ last'.alone
             /\ last'.ch = d /\ last'.sid = s) =>
               /\ last'.ret \in {"true", "false"}
               /\ Len(SelectRows(subs', d, s)) = 1
               /\ s \in DOMAIN streamRows'
               /\ d \in channelRows'
               /\ s \in DOMAIN streams_by_id'
         /\ (/\ last.op = "add" /\ last.alone /\ last.ret = "true"
             /\ last.ch = d /\ last.sid = s
             /\ last' /= last /\ last'.op = "add" /\ last'.alone
             /\ last'.ch = d /\ last'.n = last.n
             /\ last'.everyone = last.everyone) =>
               /\ last'.sid = s
               /\ last'.ret = "false"
               /\ UNCHANGED <<store, streams_by_id>>
      ]_vars

\* C11: whatever the interleaving of add, everyone and remove handlers at
\* their awaits, the Store never holds two Subscription (ChannelStream)
\* rows of one (stream id, channel id) pair.
C11_OneSubscriptionPerPair ==
    \A ch \in ChannelIds, sid \in StreamIds : Len(SelectRows(subs, ch, sid)) <= 1

\* C12: removeSubscription(D, S) of an existing subscription followed by
\* addSubscription(D, S), each run with no other handler in flight, ends with one Subscription row of the pair, the
\* Stream row of S, the Destination row of D and the Registry entry of S,
\* whatever other subscriptions S or D have.
C12_RemoveThenAddRestores ==
    [][\A d \in ChannelIds, s \in StreamIds :
         (/\ last.op = "remove" /\ last.ret = "true" /\ last.ch = d /\ last.sid = s
          /\ last.alone
          /\ last' /= last
          /\ last'.op = "add" /\ last'.ch = d /\ last'.sid = s
          /\ last'.alone) =>
            /\ last'.ret = "true"
            /\ Len(SelectRows(subs', d, s)) = 1
            /\ s \in DOMAIN streamRows'
            /\ d \in channelRows'
            /\ s \in DOMAIN streams_by_id'
      ]_vars

\* C13: once add, remove and channel-deletion handlers have run to their
\* end one after the other (none is in flight, none overlapped another), the stream ids of the Registry are those of the Stream rows, which
\* are those the Subscription rows refer to.
C13_RegistryMatchesStore ==
    (tasks = <<>> /\ last.seq) =>
       /\ DOMAIN streams_by_id = DOMAIN streamRows
       /\ DOMAIN streamRows = {r.stream_id : r \in Range(subs)}

\* C14: whatever on_ready events arrive, at most one poll_streams task
\* exists (so that no tick of one loop overlaps a tick of another).
C14_OnePollingLoop == Len(polling) <= 1

\* C15: a polling loop is launched, and a polling loop takes a step, only in
\* states where the Store's ready flag is true.
C15_LaunchedOnlyWhenReady ==
    [][polling' /= polling => ready]_vars

\* C15 witness: the Store is ready, the one on_ready call has launched the
\* loop and the loop is in its first tick
C15_Witness ==
    /\ Len(polling) = 1 /\ waiters = 0 /\ spawned = 1
    /\ ready
    /\ pc = "status" /\ now = 0

\* the step is the offline transition of stream s
Fires(s) ==
    /\ Begins(s) /\ Online(s)
    /\ pc' = "edit" \/ (Ends /\ ~streams_by_id'[s].is_online)

\* C16 as stated: the offline transition of S fires only once S has been
\* absent from at least ceil(MIN_OFFLINE_DURATION / tick interval) answers
\* in a row (the firing tick's included), never on the first absence, also
\* when no-answer ticks fall between the absent observations.
C16_FiresAfterNeededAbsences ==
    [][\A s \in StreamIds : Fires(s) => absences'[s] >= Needed /\ absences'[s] >= 2]_vars

\* C16 amended: the offline transition of S fires only on a tick more than
\* MIN_OFFLINE_DURATION after the first tick that saw S absent, never on
\* that first tick: at least two answers in a row have not held S, and no
\* more than two are needed when no-answer ticks fill the time between.
C16_FiresAfterElapsedTime ==
    [][\A s \in StreamIds :
         Fires(s) =>
            /\ absences[s] >= 1 /\ absences'[s] >= 2
            /\ streams_by_id[s].last_offline_date /= NoDate
            /\ now - streams_by_id[s].last_offline_date > MIN_OFFLINE_DURATION
      ]_vars

\* C16 witness: the transition has fired on the second absent observation,
\* fewer than ceil(MIN_OFFLINE_DURATION / tick interval)
C16_Witness ==
    /\ ev.kind = "offline"
    /\ ~Online(ev.sid)
    /\ absences[ev.sid] = 2
    /\ absences[ev.sid] < Needed

\* the step begins the iteration of stream s, whose online flag is false,
\* on an answer that does not hold s
IdleAbsent(s) == Begins(s) /\ ~Online(s) /\ ~IsPresent(s, status)

\* C17 as stated: on an answered tick where a subscribed stream S is absent
\* with its online flag false, a null last-offline timestamp is stamped
\* with the current time and nothing else of S changes; a timestamp already
\* set leaves S unchanged.
C17_FirstAbsenceStamps ==
    [][\A s \in StreamIds :
         IdleAbsent(s) =>
            IF streams_by_id[s].last_offline_date = NoDate
            THEN streams_by_id'[s] =
                    [streams_by_id[s] EXCEPT !.last_offline_date = now]
            ELSE streams_by_id'[s] = streams_by_id[s]
      ]_vars

\* C17 amended: on an answered tick where a subscribed stream S is absent
\* with its online flag false, the tick leaves S as it is, last-offline
\* timestamp included, be it null or not; nothing is posted, edited or
\* written to the Store.
C17_OfflineAbsentIsNoOp ==
    [][\A s \in StreamIds :
         IdleAbsent(s) =>
            /\ Ends
            /\ streams_by_id'[s] = streams_by_id[s]
            /\ UNCHANGED <<msgs, store>>
      ]_vars

\* C17 witness: a tick has reconciled an absent stream whose flag is false
\* and whose last-offline timestamp is still null
C17_Witness ==
    /\ ev.kind = "idle"
    /\ Registered(ev.sid) /\ ~Online(ev.sid)
    /\ streams_by_id[ev.sid].last_offline_date = NoDate
    /\ absences[ev.sid] >= 1

\* C18: after an answered tick on which a subscribed stream S is present
\* under a name that differs from the stored one, the Registry entry's name
\* and the Stream row's name in the Store are the provider's name; when the
\* names are equal the tick writes nothing to the Store for S.
C18_RenameIsPersisted ==
    [][\A s \in StreamIds :
         (Begins(s) /\ IsPresent(s, status)) =>
            IF streams_by_id[s].name /= status.live[s]
            THEN /\ streams_by_id'[s].name = status.live[s]
                 /\ s \in DOMAIN streamRows'
                 /\ streamRows'[s] = status.live[s]
            ELSE UNCHANGED store
      ]_vars

\* C19: whenever a tick reconciles, every stream id of the fan-out table it
\* built is in the Registry, whatever handlers ran while the tick was
\* suspended: the lookup of line 118 never fails and never ends the loop.
C19_FanOutIsRegistered ==
    /\ pc = "reconcile" => \A i \in DOMAIN todo : Registered(todo[i])
    /\ crash /= "keyerror"

\* C20: no posted notification is lost while its message still shows the
\* stream as live: a message neither edited to the offline rendering nor
\* deleted is held as a handle by its stream's Registry entry, from where
\* the offline transition will edit it.
C20_NoLiveHandleLost ==
    \A m \in DOMAIN msgs :
       (~msgs[m].offline /\ ~msgs[m].deleted) =>
          /\ Registered(msgs[m].stream)
          /\ m \in Range(streams_by_id[msgs[m].stream].notifications)

====
